---- MODULE Spec2Model ----
(***************************************************************************)
(* PrometheusSource (lumen/sources/prometheus.py): one get request that    *)
(* selects pods, builds one query URL per (pod, metric), fetches them in a *)
(* thread pool, decodes every payload and outer-joins the series.          *)
(***************************************************************************)
EXTENDS Integers, Sequences, FiniteSets, TLC

\* ------------------------------------------------------------------ bounds

\* Largest value the wall clock reaches while a request builds its URLs.
MaxClock == 1
\* Longest configured id list.
MaxIds == 2
\* Most samples the payloads of one pod carry together in SpecMerge.
MaxSamples == 4
\* Most (pod, metric) tasks one request fans out to.
MaxTasks == 4

Pods == {"pod-abc", "pod-xyz"}
Tables == {"timeseries", "metrics"}
Periods == {"3h", "bogus", ""}
\* Sample timestamps (seconds) and raw sample values of the payloads.
Stamps == {1000, 1010, 1020}
RawValues == {"0.5", "0.7", "abc"}

\* ------------------------------------------------------- static definitions

None == [kind |-> "None"]

\* The keys of the class attribute _metrics, in insertion order.
MetricNames == <<"memory_usage", "network_receive_bytes", "cpu_usage">>

Range(s) == {s[i] : i \in DOMAIN s}

SeqsUpTo(S, n) == UNION {[1..k -> S] : k \in 0..n}

IsInjective(s) == \A i, j \in DOMAIN s : s[i] = s[j] => i = j

\* The values the param `ids` takes: any list of pod ids, repeats included.
IdLists == SeqsUpTo(Pods, MaxIds)

\* The values the param `metrics` takes: lists of names of _metrics, none
\* repeated.
MetricLists == {m \in SeqsUpTo(Range(MetricNames), Len(MetricNames)) : IsInjective(m)}

\* The `id` entry of **query: absent, or a collection of pod ids.
IdFilters == {None} \cup {[kind |-> "ids", ids |-> S] : S \in SUBSET Pods}

VARIABLES
    ids,          \* self.ids
    metrics,      \* self.metrics
    period,       \* self.period
    clock,        \* what dt.datetime.now() returns
    pc,           \* where the request is
    table,        \* get's table argument
    pod_ids,      \* _make_query's selected pods
    triples,      \* _fetch_data's (pod_id, metric, query_url) list
    tasks,        \* the futures of the executor, one per triple
    fetched_json, \* _fetch_data's output mapping, pods in insertion order
    warnings,     \* number of self.param.warning calls
    httpCount,    \* number of requests.get calls issued
    result,       \* the DataFrame get returns
    error,        \* the exception get raised
    schemaOut     \* what the last get_schema call returned

vars == <<ids, metrics, period, clock, pc, table, pod_ids, triples, tasks,
          fetched_json, warnings, httpCount, result, error, schemaOut>>

\* ------------------------------------------------------ time window, URLs

\* lumen.util.parse_timedelta: seconds of an <integer><unit> period, else None.
parse_timedelta(p) ==
    CASE p = "3h" -> [kind |-> "timedelta", seconds |-> 10800]
      [] OTHER -> None

\* _format_timestamps: end is now, start is end minus the period; raises
\* ValueError when the period does not parse.
_format_timestamps(p, now) ==
    LET end == now
        delta == parse_timedelta(p)
    IN  IF delta = None
        THEN [ok |-> FALSE]
        ELSE [ok |-> TRUE, start |-> end - delta.seconds, end |-> end]

\* pod_id[3:] of line 128.
Slice3(pod_id) ==
    CASE pod_id = "pod-abc" -> "-abc"
      [] pod_id = "pod-xyz" -> "-xyz"

\* _get_query_url / _url_query_parameters: the URL as its parts.
_get_query_url(metric, podTail, p, now) ==
    LET ts == _format_timestamps(p, now)
    IN  IF ~ts.ok
        THEN [ok |-> FALSE]
        ELSE [ok |-> TRUE,
              query |-> <<metric, "anaconda-app-", podTail, "-.*">>,
              start |-> ts.start, end |-> ts.end]

\* ------------------------------------------------------------ get, select

\* get without its check of the table name.
table_known_any(t) == TRUE

\* `table not in ('timeseries',)` of get, negated.
table_known(t) == t \in {"timeseries"}

\* The list comprehension of _make_query, lines 149-152.
select_pods(idList, query) ==
    LET Keep(p) == query.kind = "None" \/ p \in query.ids
    IN  SelectSeq(idList, Keep)

\* The (pod_id, metric) pairs in the order the comprehension of lines 127-130
\* visits them.
PairAt(k) ==
    LET nm == Len(metrics)
    IN  <<pod_ids[((k - 1) \div nm) + 1], metrics[((k - 1) % nm) + 1]>>

NumTriples == Len(pod_ids) * Len(metrics)

\* ------------------------------------------------------------------ server

\* One [timestamp, value] item of a JSON payload.
Sample(t, v) == [t |-> t, v |-> v]

\* What the endpoint holds for a pod and metric: a non-empty series.
ServerData(pod, metric) ==
    LET v == IF pod = "pod-abc" THEN "0.5" ELSE "0.7"
    IN  CASE metric = "memory_usage" -> <<Sample(1000, v), Sample(1010, v)>>
          [] metric = "cpu_usage" -> <<Sample(1010, v), Sample(1020, v)>>
          [] OTHER -> <<Sample(1000, v), Sample(1020, v)>>

Raise == [kind |-> "raise"]
Json(body) == [kind |-> "json", body |-> body]

\* What one requests.get + response.json() can do for a URL.
Responses(pod, metric) == {Raise, Json(<<>>), Json(ServerData(pod, metric))}

\* _get_query_json without the `len(data) == 0` normalisation.
_get_query_json_raw(resp) == resp

\* _get_query_json: raises what the call raised, None for an empty body,
\* else the body.
_get_query_json(resp) ==
    IF resp.kind = "raise" THEN Raise
    ELSE IF Len(resp.body) = 0 THEN None
    ELSE Json(resp.body)

\* Lines 138-141: what the loop stores for a completed future.
StoredEntry(outcome) ==
    IF outcome.kind = "raise" THEN Json(<<>>) ELSE outcome

\* fetched_json[pod_id][metric] = entry on a defaultdict(dict).
PutEntry(fj, pod, metric, entry) ==
    [order |-> IF pod \in Range(fj.order) THEN fj.order ELSE Append(fj.order, pod),
     data |-> [q \in (DOMAIN fj.data) \cup {<<pod, metric>>} |->
                 IF q = <<pod, metric>> THEN entry ELSE fj.data[q]]]

EmptyMapping == [order |-> <<>>, data |-> <<>>]

\* The loop of line 136 left after the first future.
as_completed_first(ts) == \E i \in DOMAIN ts : ts[i].st = "collected"

\* as_completed has yielded every future: the loop of line 136 ends.
as_completed_exhausted(ts) == \A i \in DOMAIN ts : ts[i].st = "collected"

\* ------------------------------------------------------------------ decode

\* astype(float) on one raw value, in tenths; raises ValueError when the
\* string is no number.
astype_float(raw) ==
    CASE raw = "0.5" -> [ok |-> TRUE, f |-> 5]
      [] raw = "0.7" -> [ok |-> TRUE, f |-> 7]
      [] OTHER -> [ok |-> FALSE]

\* pd.to_datetime(unit='s'): seconds since the epoch to an instant (here in
\* milliseconds).
to_datetime(seconds) == seconds * 1000

\* A cell of a frame: a float, or null (NaN).
Null == <<>>
Cell(f) == <<f>>

\* _json_to_df: a frame indexed by timestamp with the one column `metric`.
_json_to_df(metric, entry) ==
    LET body == IF entry.kind = "None" THEN <<>> ELSE entry.body
    IN  IF \E i \in DOMAIN body : ~astype_float(body[i].v).ok
        THEN [ok |-> FALSE]
        ELSE [ok |-> TRUE,
              cols |-> <<metric>>,
              rows |-> [i \in DOMAIN body |->
                          [timestamp |-> to_datetime(body[i].t),
                           cells |-> [c \in {metric} |->
                                        Cell(astype_float(body[i].v).f)]]]]

\* ------------------------------------------------------------------- merge

RECURSIVE SortedSeq(_)
SortedSeq(S) ==
    IF S = {} THEN <<>>
    ELSE LET m == CHOOSE x \in S : \A y \in S : x <= y
         IN  <<m>> \o SortedSeq(S \ {m})

RECURSIVE Flatten(_)
Flatten(ss) == IF ss = <<>> THEN <<>> ELSE Head(ss) \o Flatten(Tail(ss))

RowsAt(df, t) == SelectSeq(df.rows, LAMBDA r : r.timestamp = t)

Keys(df) == {df.rows[i].timestamp : i \in DOMAIN df.rows}

JoinRow(t, leftCols, rightCols, l, r) ==
    [timestamp |-> t,
     cells |-> [c \in leftCols \cup rightCols |->
                  IF c \in leftCols
                  THEN (IF l = Null THEN Null ELSE l[1].cells[c])
                  ELSE (IF r = Null THEN Null ELSE r[1].cells[c])]]

\* The rows an outer join gives for one key: the product of the matching
\* rows of both sides, or the rows of one side padded with nulls.
JoinAt(left, right, t) ==
    LET ls == RowsAt(left, t)
        rs == RowsAt(right, t)
        lc == Range(left.cols)
        rc == Range(right.cols)
    IN  IF ls = <<>>
        THEN [j \in DOMAIN rs |-> JoinRow(t, lc, rc, Null, <<rs[j]>>)]
        ELSE IF rs = <<>>
        THEN [i \in DOMAIN ls |-> JoinRow(t, lc, rc, <<ls[i]>>, Null)]
        ELSE Flatten([i \in DOMAIN ls |->
                 [j \in DOMAIN rs |-> JoinRow(t, lc, rc, <<ls[i]>>, <<rs[j]>>)]])

\* pd.merge(..., how='inner'): only the keys both sides have.
merge_inner(left, right) ==
    LET keys == SortedSeq(Keys(left) \cap Keys(right))
    IN  [cols |-> left.cols \o right.cols,
         rows |-> Flatten([k \in DOMAIN keys |-> JoinAt(left, right, keys[k])])]

\* pd.merge(df, data_df, on='timestamp', how='outer'): keys sorted.
merge_outer(left, right) ==
    LET keys == SortedSeq(Keys(left) \cup Keys(right))
    IN  [cols |-> left.cols \o right.cols,
         rows |-> Flatten([k \in DOMAIN keys |-> JoinAt(left, right, keys[k])])]

\* The loop of lines 156-162 for one pod: the frames of the first k metrics
\* merged; ok is FALSE when a decode raised.
RECURSIVE PodFrame(_, _, _)
PodFrame(fj, pod, k) ==
    LET data_df == _json_to_df(metrics[k], fj.data[<<pod, metrics[k]>>])
        df == PodFrame(fj, pod, k - 1)
    IN  IF k = 1 THEN data_df
        ELSE IF ~df.ok \/ ~data_df.ok THEN [ok |-> FALSE]
        ELSE [ok |-> TRUE] @@ merge_outer(df, data_df)

\* Lines 163-164: reset_index, then the id as the leading column.
WithId(df, pod) ==
    [columns |-> <<"id", "timestamp">> \o df.cols,
     rows |-> [i \in DOMAIN df.rows |->
                 [id |-> pod, timestamp |-> df.rows[i].timestamp,
                  cells |-> df.rows[i].cells]]]

\* ------------------------------------------------------------------ schema

Str(s) == [kind |-> "str", s |-> s]

\* get_schema: the column names of the schema mapping, in insertion order;
\* with no table, the mapping holding the one table.
get_schema(t) ==
    LET schema == <<"id", "timestamp">> \o MetricNames
    IN  [raised |-> FALSE,
         keys |-> IF t = None THEN <<"timeseries">> ELSE schema]

\* `if not pod_ids` of _fetch_data, never taken.
no_pods_never(pods) == FALSE

\* `if not pod_ids` of _fetch_data.
no_pods(pods) == pods = <<>>

\* Lines 154-169: one frame per pod of the mapping, concatenated; the empty
\* frame with the schema's columns when there is none.
make_query_frames(fj) ==
    LET frames == [i \in DOMAIN fj.order |->
                     PodFrame(fj, fj.order[i], Len(metrics))]
        dfs == [i \in DOMAIN frames |-> WithId(frames[i], fj.order[i])]
    IN  IF \E i \in DOMAIN frames : ~frames[i].ok
        THEN [ok |-> FALSE]
        ELSE IF dfs # <<>>
        THEN [ok |-> TRUE,
              columns |-> dfs[1].columns,
              rows |-> Flatten([i \in DOMAIN dfs |-> dfs[i].rows])]
        ELSE [ok |-> TRUE,
              columns |-> get_schema(Str("timeseries")).keys,
              rows |-> <<>>]

\* ----------------------------------------------------------------- actions

NoTable == ""

Init ==
    /\ ids \in IdLists
    /\ metrics \in MetricLists
    /\ Len(ids) * Len(metrics) <= MaxTasks
    /\ period \in Periods
    /\ clock = 0
    /\ pc = "idle"
    /\ table = NoTable
    /\ pod_ids = <<>>
    /\ triples = <<>>
    /\ tasks = <<>>
    /\ fetched_json = EmptyMapping
    /\ warnings = 0
    /\ httpCount = 0
    /\ result = None
    /\ error = "none"
    /\ schemaOut = None

\* get(table, **query) up to the entry of _fetch_data.
Get(t, query) ==
    /\ pc = "idle"
    /\ table' = t
    /\ IF ~table_known(t)
       THEN /\ pc' = "failed"
            /\ error' = "UnknownTable"
            /\ UNCHANGED pod_ids
       ELSE /\ pod_ids' = select_pods(ids, query)
            /\ pc' = IF no_pods(pod_ids') THEN "merging" ELSE "building"
            /\ UNCHANGED error
    /\ UNCHANGED <<ids, metrics, period, clock, triples, tasks, fetched_json,
                   warnings, httpCount, result, schemaOut>>

\* One element of the comprehension of lines 127-130: the next URL is built
\* from the clock as it reads now.
BuildUrl ==
    /\ pc = "building"
    /\ Len(triples) < NumTriples
    /\ LET pair == PairAt(Len(triples) + 1)
           url == _get_query_url(pair[2], Slice3(pair[1]), period, clock)
       IN  IF ~url.ok
           THEN /\ pc' = "failed"
                /\ error' = "InvalidPeriod"
                /\ UNCHANGED triples
           ELSE /\ triples' = Append(triples,
                        [pod_id |-> pair[1], metric |-> pair[2], url |-> url])
                /\ UNCHANGED <<pc, error>>
    /\ UNCHANGED <<ids, metrics, period, clock, table, pod_ids, tasks,
                   fetched_json, warnings, httpCount, result, schemaOut>>

\* Time passes between two readings of the clock, while the URLs are built.
Tick ==
    /\ pc = "building"
    /\ triples # <<>>
    /\ clock < MaxClock
    /\ clock' = clock + 1
    /\ UNCHANGED <<ids, metrics, period, pc, table, pod_ids, triples, tasks,
                   fetched_json, warnings, httpCount, result, error, schemaOut>>

\* Lines 132-135: the pool of len(triples) workers (ValueError for none) and
\* one submitted future per triple.
Dispatch ==
    /\ pc = "building"
    /\ Len(triples) = NumTriples
    /\ IF Len(triples) = 0
       THEN /\ pc' = "failed"
            /\ error' = "PoolSize"
            /\ UNCHANGED tasks
       ELSE /\ tasks' = [i \in DOMAIN triples |-> [st |-> "submitted"]]
            /\ pc' = "fetching"
            /\ UNCHANGED error
    /\ UNCHANGED <<ids, metrics, period, clock, table, pod_ids, triples,
                   fetched_json, warnings, httpCount, result, schemaOut>>

\* A worker runs _get_query_json for its URL.
Run(i) ==
    /\ pc = "fetching"
    /\ tasks[i].st = "submitted"
    /\ \E resp \in Responses(triples[i].pod_id, triples[i].metric) :
           tasks' = [tasks EXCEPT ![i] =
                        [st |-> "done", resp |-> resp,
                         out |-> _get_query_json(resp)]]
    /\ httpCount' = httpCount + 1
    /\ UNCHANGED <<ids, metrics, period, clock, pc, table, pod_ids, triples,
                   fetched_json, warnings, result, error, schemaOut>>

\* The body of the as_completed loop for a future that has completed.
Collect(i) ==
    /\ pc = "fetching"
    /\ tasks[i].st = "done"
    /\ fetched_json' = PutEntry(fetched_json, triples[i].pod_id,
                                triples[i].metric, StoredEntry(tasks[i].out))
    /\ warnings' = warnings + (IF tasks[i].out.kind = "raise" THEN 1 ELSE 0)
    /\ tasks' = [tasks EXCEPT ![i].st = "collected"]
    /\ UNCHANGED <<ids, metrics, period, clock, pc, table, pod_ids, triples,
                   httpCount, result, error, schemaOut>>

\* _fetch_data returns its mapping.
Return ==
    /\ pc = "fetching"
    /\ as_completed_exhausted(tasks)
    /\ pc' = "merging"
    /\ UNCHANGED <<ids, metrics, period, clock, table, pod_ids, triples, tasks,
                   fetched_json, warnings, httpCount, result, error, schemaOut>>

\* Lines 154-169 of _make_query on the mapping _fetch_data returned.
MakeQuery ==
    /\ pc = "merging"
    /\ LET r == make_query_frames(fetched_json)
       IN  IF r.ok
           THEN /\ result' = [columns |-> r.columns, rows |-> r.rows]
                /\ pc' = "done"
                /\ UNCHANGED error
           ELSE /\ error' = "Decode"
                /\ pc' = "failed"
                /\ UNCHANGED result
    /\ UNCHANGED <<ids, metrics, period, clock, table, pod_ids, triples, tasks,
                   fetched_json, warnings, httpCount, schemaOut>>

Next ==
    \/ \E t \in Tables, query \in IdFilters : Get(t, query)
    \/ BuildUrl
    \/ Tick
    \/ Dispatch
    \/ \E i \in DOMAIN tasks : Run(i)
    \/ \E i \in DOMAIN tasks : Collect(i)
    \/ Return
    \/ MakeQuery

Spec == Init /\ [][Next]_vars

\* ------------------------------------------------- decode and merge alone

Samples == {Sample(t, v) : t \in Stamps, v \in RawValues}

\* The i-th of the payloads a flat run of samples is cut into at `cuts`.
BodyAt(flat, cuts, i) ==
    SubSeq(flat,
           (IF i = 1 THEN 0 ELSE cuts[i - 1]) + 1,
           IF i > Len(cuts) THEN Len(flat) ELSE cuts[i])

\* What _fetch_data stores for one pair: None, [] or a non-empty payload.
EntryOf(body, absent) == IF absent THEN None ELSE Json(body)

MergeMetricLists == {<<"cpu_usage">>, <<"memory_usage", "cpu_usage">>}

\* _make_query after _fetch_data returned, for one pod and every mapping of
\* payloads with at most MaxSamples samples.
InitMerge ==
    /\ ids = <<"pod-abc">>
    /\ metrics \in MergeMetricLists
    /\ period = "3h"
    /\ clock = 0
    /\ pc = "merging"
    /\ table = "timeseries"
    /\ pod_ids = ids
    /\ triples = <<>>
    /\ tasks = <<>>
    /\ \E flat \in SeqsUpTo(Samples, MaxSamples) :
       \E cuts \in [1..(Len(metrics) - 1) -> 0..Len(flat)] :
       \E absent \in [DOMAIN metrics -> BOOLEAN] :
           /\ \A i \in DOMAIN cuts : i > 1 => cuts[i - 1] <= cuts[i]
           /\ \A i \in DOMAIN metrics :
                  absent[i] => BodyAt(flat, cuts, i) = <<>>
           /\ fetched_json =
                  [order |-> pod_ids,
                   data |-> [q \in {<<pod_ids[1], metrics[i]>> : i \in DOMAIN metrics} |->
                               LET i == CHOOSE j \in DOMAIN metrics : metrics[j] = q[2]
                               IN  EntryOf(BodyAt(flat, cuts, i), absent[i])]]
    /\ warnings = 0
    /\ httpCount = 0
    /\ result = None
    /\ error = "none"
    /\ schemaOut = None

NextMerge == MakeQuery

SpecMerge == InitMerge /\ [][NextMerge]_vars

\* -------------------------------------------------------- get_schema alone

TableArgs == {None} \cup {Str(t) : t \in Tables}

GetSchema(t) ==
    /\ pc = "idle"
    /\ schemaOut' = [table |-> t] @@ get_schema(t)
    /\ UNCHANGED <<ids, metrics, period, clock, pc, table, pod_ids, triples,
                   tasks, fetched_json, warnings, httpCount, result, error>>

NextSchema == \E t \in TableArgs : GetSchema(t)

SpecSchema == Init /\ [][NextSchema]_vars

\* ------------------------------------------------------------------ claims

\* _fetch_data has returned (get went on to the merge, or finished).
Returned ==
    \/ pc \in {"merging", "done"}
    \/ pc = "failed" /\ error = "Decode"

RequestedPairs == {<<p, m>> : p \in Range(pod_ids), m \in Range(metrics)}

TasksOf(q) ==
    {i \in DOMAIN tasks : <<triples[i].pod_id, triples[i].metric>> = q}

\* C1: when _fetch_data returns for a non-empty pod list, its mapping holds
\* an entry for exactly the requested (pod, metric) pairs, and every task has
\* been resolved and handled.
C1_ExactlyRequestedPairs ==
    (Returned /\ pod_ids # <<>>) =>
        /\ DOMAIN fetched_json.data = RequestedPairs
        /\ Range(fetched_json.order) = Range(pod_ids)
        /\ Len(tasks) = NumTriples
        /\ \A i \in DOMAIN tasks : tasks[i].st = "collected"

C1_Witness ==
    /\ pc = "merging"
    /\ Len(pod_ids) = 2
    /\ Len(metrics) = 2
    /\ \E i \in DOMAIN tasks : tasks[i].resp.kind = "raise"
    /\ \E i \in DOMAIN tasks : tasks[i].resp.kind = "json"
    /\ fetched_json.order # pod_ids

ExpectedEntry(resp) ==
    IF resp.kind = "raise" THEN Json(<<>>)
    ELSE IF resp.body = <<>> THEN None
    ELSE Json(resp.body)

SeriesOf(pod, m) ==
    LET e == fetched_json.data[<<pod, m>>]
        body == IF e.kind = "None" THEN <<>> ELSE e.body
    IN  {<<to_datetime(body[i].t), astype_float(body[i].v).f>> : i \in DOMAIN body}

StampsOf(pod, m) == {x[1] : x \in SeriesOf(pod, m)}

RowsOf(pod) == {i \in DOMAIN result.rows : result.rows[i].id = pod}

\* C3: in the table get returns, the timestamps of a pod's rows are the
\* union of the timestamps of its metric series; a metric column holds a
\* value of that metric at the row's timestamp when the series has the
\* timestamp and null otherwise; every sample is in some row.
C3_FullOuterJoin ==
    pc = "done" =>
        \A pod \in Range(fetched_json.order) :
            /\ {result.rows[i].timestamp : i \in RowsOf(pod)} =
                   UNION {StampsOf(pod, m) : m \in Range(metrics)}
            /\ \A i \in RowsOf(pod), m \in Range(metrics) :
                   LET row == result.rows[i]
                   IN  IF row.timestamp \in StampsOf(pod, m)
                       THEN \E x \in SeriesOf(pod, m) :
                               x[1] = row.timestamp /\ row.cells[m] = Cell(x[2])
                       ELSE row.cells[m] = Null
            /\ \A m \in Range(metrics) : \A x \in SeriesOf(pod, m) :
                   \E i \in RowsOf(pod) :
                       /\ result.rows[i].timestamp = x[1]
                       /\ result.rows[i].cells[m] = Cell(x[2])

\* A on {t1, t2} and B on {t2, t3}: rows t1, t2, t3, A null at t3, B null
\* at t1.
C3_Witness ==
    /\ pc = "done"
    /\ metrics = <<"memory_usage", "cpu_usage">>
    /\ StampsOf("pod-abc", "memory_usage") = {1000000, 1010000}
    /\ StampsOf("pod-abc", "cpu_usage") = {1010000, 1020000}
    /\ Len(result.rows) = 3
    /\ result.rows[1].cells["cpu_usage"] = Null
    /\ result.rows[3].cells["memory_usage"] = Null
    /\ result.rows[2].cells = [m \in Range(metrics) |-> Cell(IF m = "cpu_usage" THEN 7 ELSE 5)]

\* C4: a timeseries request that selects no pod does not fail, issues no
\* HTTP request and returns zero rows under the columns get_schema declares.
C4_NoPodsEmptyTable ==
    (pc # "idle" /\ table = "timeseries" /\ pod_ids = <<>>) =>
        /\ pc \in {"merging", "done"}
        /\ error = "none"
        /\ httpCount = 0
        /\ triples = <<>>
        /\ pc = "done" =>
              /\ result.rows = <<>>
              /\ result.columns = get_schema(Str("timeseries")).keys
              /\ result.columns = <<"id", "timestamp", "memory_usage",
                                      "network_receive_bytes", "cpu_usage">>

C4_Witness ==
    /\ pc = "done"
    /\ table = "timeseries"
    /\ Len(ids) = 2
    /\ pod_ids = <<>>
    /\ parse_timedelta(period) = None
    /\ result.rows = <<>>

\* C5 as stated: with a pod selected and every fetch producing nothing, the
\* table returned has zero rows and the columns get_schema declares.
C5_AllEmptySchemaColumns ==
    (/\ pc = "done"
     /\ pod_ids # <<>>
     /\ \A i \in DOMAIN tasks :
            tasks[i].resp.kind = "raise" \/ tasks[i].resp.body = <<>>) =>
        /\ result.rows = <<>>
        /\ result.columns = get_schema(Str("timeseries")).keys

\* C6 as stated: get_schema raises for every table other than "timeseries"
\* or none.
C6_SchemaUnknownTable ==
    (schemaOut # None /\ schemaOut.table \notin {None, Str("timeseries")}) =>
        schemaOut.raised

\* C7 as stated: whatever payloads the mapping holds, decoding them raises
\* nothing and get returns a table.
C7_DecodeNeverRaises ==
    (pc \in {"done", "failed"} /\ fetched_json.order # <<>>) =>
        (pc = "done" /\ error # "Decode")

\* C8: a request that failed for its table name or its period has issued no
\* HTTP GET, and no request with another table name or an unparsable period
\* ever issues one.
C8_StructuralErrorsFirst ==
    /\ error \in {"UnknownTable", "InvalidPeriod"} =>
          (httpCount = 0 /\ tasks = <<>>)
    /\ httpCount > 0 =>
          (table = "timeseries" /\ parse_timedelta(period) # None)
    /\ (pc # "idle" /\ table # "timeseries") =>
          (pc = "failed" /\ error = "UnknownTable")

C8_Witness ==
    /\ pc = "failed"
    /\ error = "InvalidPeriod"
    /\ Len(pod_ids) = 2
    /\ Len(metrics) = 2

\* C9 as stated: all URLs of one request carry the same start and the same
\* end.
C9_OneWindowPerRequest ==
    \A i, j \in DOMAIN triples :
        /\ triples[i].url.start = triples[j].url.start
        /\ triples[i].url.end = triples[j].url.end

\* C10 as stated: no two rows of the table get returns share id and
\* timestamp.
C10_UniqueIdTimestamp ==
    pc = "done" =>
        \A i, j \in DOMAIN result.rows :
            (/\ result.rows[i].id = result.rows[j].id
             /\ result.rows[i].timestamp = result.rows[j].timestamp) => i = j

====
